---- MODULE Spec2Model ----
(***************************************************************************)
(* Model of the Vejdirektoratet winter-road integration:                   *)
(*   - mvt_decoder.py : the vector-tile decoder, as pure operators over    *)
(*     byte sequences (a Python bytes object is a sequence of 0..255,      *)
(*     Python offsets are 0-based, so data[pos] is data[pos + 1] here);    *)
(*   - api.py         : tile arithmetic, salting status, the API client;   *)
(*   - coordinator.py : one refresh cycle of the update coordinator.       *)
(* A Python str is the sequence of its code points.                        *)
(***************************************************************************)
EXTENDS Integers, Sequences, FiniteSets, TLC

VARIABLES
    pc,                  \* position of the refresh cycle (coordinator + API client)
    tile_version,        \* VejdirektoratetAPI._tile_version
    all_segments,        \* get_roads_near_location: all_segments
    tiles,               \* get_roads_near_location: tiles
    idx,                 \* index (1-based) of the tile the for loop is at
    nearby_feature_ids,  \* get_roads_near_location: nearby_feature_ids
    requests,            \* HTTP requests issued in the current cycle, in order
    inflight,            \* the HTTP requests awaiting their response
    outcome,             \* what _async_update_data produced in the current cycle
    cycle,               \* number of refresh cycles started
    last_resp,           \* kind of the last tile response of the cycle ("" before it)
    last_ret,            \* what the last fetch_tile_features call returned
    status_resp,         \* kind of the cycle's status-feed response ("" before it)
    meta_resp,           \* kind of the cycle's metadata response ("" when none)
    good_ids,            \* feature ids carried by the well-formed tiles of the cycle
    returned_ids,        \* union of the lists fetch_tile_features returned in the cycle
    home,                \* hass.config latitude/longitude, as projected coordinates
    fn_pc,               \* position of a pure-function run
    fn_in,               \* its input
    fn_out,              \* its result
    stack                \* call stack of a function run step by step (top last)

apiVars == <<pc, tile_version, all_segments, tiles, idx, nearby_feature_ids,
             requests, inflight, outcome, cycle, last_resp, last_ret, status_resp,
             meta_resp, good_ids, returned_ids, home>>
fnVars == <<fn_pc, fn_in, fn_out, stack>>
vars == <<apiVars, fnVars>>

Min(a, b) == IF a < b THEN a ELSE b

\* Python's data[a:b] for 0 <= a, 0 <= b: both ends are clamped to len(data).
Slice(data, a, b) ==
    LET lo == Min(a, Len(data))
        hi == Min(b, Len(data))
    IN  SubSeq(data, lo + 1, hi)

-----------------------------------------------------------------------------
(* Results of the decoding functions: a value with the new read position,  *)
(* or the exception raised.                                                *)

TruncatedData == "ValueError: Unexpected end of data while reading varint"
UnknownWireType == "ValueError: Unknown wire type"
InvalidEncoding == "UnicodeDecodeError"
StructError == "struct.error"
DecompressionError == "gzip error"

Ok(v, p) == [ok |-> TRUE, val |-> v, pos |-> p, err |-> ""]
Err(e) == [ok |-> FALSE, val |-> <<>>, pos |-> 0, err |-> e]

-----------------------------------------------------------------------------
(* mvt_decoder.py: decode_varint, decode_sint, skip_field                  *)

\* What follows a call that may raise: F applied to the call's result r, or,
\* when the call raised, the exception, which propagates.
Then(r, F(_)) == IF r.ok THEN F(r) ELSE r

\* The while loop of decode_varint; mult is 2^shift.  The payload bits of the
\* bytes do not overlap, so result |= bits << shift is an addition.
RECURSIVE VarintLoop(_, _, _, _)
VarintLoop(data, pos, result, mult) ==
    IF pos >= Len(data)
    THEN Err(TruncatedData)
    ELSE LET byte == data[pos + 1] IN
         IF byte < 128
         THEN Ok(result + byte * mult, pos + 1)
         ELSE VarintLoop(data, pos + 1, result + (byte - 128) * mult, mult * 128)

decode_varint(data, pos) == VarintLoop(data, pos, 0, 1)

\* (value >> 1) ^ -(value & 1)
decode_sint(value) ==
    IF value % 2 = 0 THEN value \div 2 ELSE -((value + 1) \div 2)

skip_field(data, pos, wire_type) ==
    CASE wire_type = 0 -> Then(decode_varint(data, pos), LAMBDA r : Ok(<<>>, r.pos))
      [] wire_type = 1 -> Ok(<<>>, pos + 8)
      [] wire_type = 2 -> Then(decode_varint(data, pos),
                               LAMBDA r : Ok(<<>>, r.pos + r.val))
      [] wire_type = 5 -> Ok(<<>>, pos + 4)
      [] OTHER -> Err(UnknownWireType)

-----------------------------------------------------------------------------
(* bytes.decode("utf-8"), strict: the code points, or UnicodeDecodeError.  *)

IsCont(b) == b >= 128 /\ b <= 191

RECURSIVE Utf8Loop(_, _, _)
Utf8Loop(data, i, acc) ==
    IF i > Len(data) THEN Ok(acc, 0)
    ELSE LET b0 == data[i]
             n  == Len(data) - i
             b1 == IF n >= 1 THEN data[i + 1] ELSE 0
             b2 == IF n >= 2 THEN data[i + 2] ELSE 0
             b3 == IF n >= 3 THEN data[i + 3] ELSE 0
         IN
         IF b0 < 128 THEN Utf8Loop(data, i + 1, Append(acc, b0))
         ELSE IF b0 >= 194 /\ b0 <= 223 THEN
              IF n >= 1 /\ IsCont(b1)
              THEN Utf8Loop(data, i + 2, Append(acc, (b0 - 192) * 64 + (b1 - 128)))
              ELSE Err(InvalidEncoding)
         ELSE IF b0 >= 224 /\ b0 <= 239 THEN
              IF /\ n >= 2
                 /\ IsCont(b1) /\ IsCont(b2)
                 /\ (b0 = 224 => b1 >= 160)
                 /\ (b0 = 237 => b1 <= 159)
              THEN Utf8Loop(data, i + 3,
                       Append(acc, (b0 - 224) * 4096 + (b1 - 128) * 64 + (b2 - 128)))
              ELSE Err(InvalidEncoding)
         ELSE IF b0 >= 240 /\ b0 <= 244 THEN
              IF /\ n >= 3
                 /\ IsCont(b1) /\ IsCont(b2) /\ IsCont(b3)
                 /\ (b0 = 240 => b1 >= 144)
                 /\ (b0 = 244 => b1 <= 143)
              THEN Utf8Loop(data, i + 4,
                       Append(acc, (b0 - 240) * 262144 + (b1 - 128) * 4096
                                   + (b2 - 128) * 64 + (b3 - 128)))
              ELSE Err(InvalidEncoding)
         ELSE Err(InvalidEncoding)

Utf8Decode(data) == Utf8Loop(data, 1, <<>>)

-----------------------------------------------------------------------------
(* Python values held in a layer's value array.  v is always a sequence:   *)
(* the code points of a str, <<n>> for an int, <<0>> or <<1>> for a bool,  *)
(* the little-endian bytes of a float, <<>> for None.                      *)

StrV(s) == [t |-> "str", v |-> s]
IntV(n) == [t |-> "int", v |-> <<n>>]
BoolV(b) == [t |-> "bool", v |-> <<IF b THEN 1 ELSE 0>>]
FloatV(bits) == [t |-> "float", v |-> bits]
NoneValue == [t |-> "None", v |-> <<>>]

\* struct.unpack("<f" / "<d", b): struct.error unless b has exactly the width.
StructUnpack(width, b) ==
    IF Len(b) = width THEN Ok(FloatV(b), 0) ELSE Err(StructError)

(* mvt_decoder.py: decode_value *)

RECURSIVE ValueLoop(_, _)

\* The if/elif chain of decode_value on a field whose payload starts at pos.
ValueField(data, field_num, wire_type, pos) ==
    IF field_num = 1 /\ wire_type = 2 THEN
        Then(decode_varint(data, pos), LAMBDA ln :
            Then(Utf8Decode(Slice(data, ln.pos, ln.pos + ln.val)), LAMBDA s :
                Ok(StrV(s.val), ln.pos)))
    ELSE IF field_num = 2 /\ wire_type = 5 THEN
        StructUnpack(4, Slice(data, pos, pos + 4))
    ELSE IF field_num = 3 /\ wire_type = 1 THEN
        StructUnpack(8, Slice(data, pos, pos + 8))
    ELSE IF field_num \in {4, 5} /\ wire_type = 0 THEN
        Then(decode_varint(data, pos), LAMBDA r : Ok(IntV(r.val), r.pos))
    ELSE IF field_num = 6 /\ wire_type = 0 THEN
        Then(decode_varint(data, pos), LAMBDA r : Ok(IntV(decode_sint(r.val)), r.pos))
    ELSE IF field_num = 7 /\ wire_type = 0 THEN
        Then(decode_varint(data, pos), LAMBDA r : Ok(BoolV(r.val # 0), r.pos))
    ELSE Then(skip_field(data, pos, wire_type), LAMBDA sk : ValueLoop(data, sk.pos))

\* The while loop of decode_value from read position pos.
ValueLoop(data, pos) ==
    IF pos >= Len(data) THEN Ok(NoneValue, pos)
    ELSE Then(decode_varint(data, pos), LAMBDA tg :
             ValueField(data, tg.val \div 8, tg.val % 8, tg.pos))

decode_value(data) == ValueLoop(data, 0)

-----------------------------------------------------------------------------
(* mvt_decoder.py: decode_feature.  A properties dict is a function from   *)
(* key strings to values.                                                  *)

EmptyDict == [k \in {} |-> NoneValue]

\* Mutant of DictSet: properties.setdefault(k, v), the first value is kept.
DictSetDefault(d, k, v) ==
    [x \in (DOMAIN d) \cup {k} |-> IF x \in DOMAIN d THEN d[x] ELSE v]

\* properties[k] = v
DictSet(d, k, v) == [x \in (DOMAIN d) \cup {k} |-> IF x = k THEN v ELSE d[x]]

\* The inner while loop over the packed tags: while pos < end.
RECURSIVE PackedLoop(_, _, _, _)
PackedLoop(data, pos, end, tags) ==
    IF pos >= end THEN Ok(tags, pos)
    ELSE Then(decode_varint(data, pos), LAMBDA r :
             PackedLoop(data, r.pos, end, Append(tags, r.val)))

RECURSIVE FeatureLoop(_, _, _)

\* The if/else of decode_feature's loop on a field whose payload starts at pos.
FeatureField(data, field_num, wire_type, pos, tags) ==
    IF field_num = 2 /\ wire_type = 2 THEN
        Then(decode_varint(data, pos), LAMBDA ln :
            Then(PackedLoop(data, ln.pos, ln.pos + ln.val, tags), LAMBDA pk :
                FeatureLoop(data, pk.pos, pk.val)))
    ELSE Then(skip_field(data, pos, wire_type), LAMBDA sk :
             FeatureLoop(data, sk.pos, tags))

\* The outer while loop of decode_feature: the tags array, or the exception.
FeatureLoop(data, pos, tags) ==
    IF pos >= Len(data) THEN Ok(tags, pos)
    ELSE Then(decode_varint(data, pos), LAMBDA tg :
             FeatureField(data, tg.val \div 8, tg.val % 8, tg.pos, tags))

\* for i in range(0, len(tags), 2): the loop from 0-based index i.
RECURSIVE TagsToProperties(_, _, _, _, _)
TagsToProperties(tags, i, keys, values, properties) ==
    IF i >= Len(tags) THEN properties
    ELSE IF i + 1 < Len(tags)
         THEN LET key_idx == tags[i + 1]
                  val_idx == tags[i + 2]
              IN  IF key_idx < Len(keys) /\ val_idx < Len(values)
                  THEN TagsToProperties(tags, i + 2, keys, values,
                           DictSet(properties, keys[key_idx + 1], values[val_idx + 1]))
                  ELSE TagsToProperties(tags, i + 2, keys, values, properties)
         ELSE TagsToProperties(tags, i + 2, keys, values, properties)

decode_feature(data, keys, values) ==
    Then(FeatureLoop(data, 0, <<>>), LAMBDA t :
        Ok(TagsToProperties(t.val, 0, keys, values, EmptyDict), 0))

-----------------------------------------------------------------------------
(* mvt_decoder.py: decode_layer                                            *)

\* The second loop: every stored feature slice against the collected arrays.
RECURSIVE ResolveFeatures(_, _, _, _, _)
ResolveFeatures(features_data, i, keys, values, features) ==
    IF i > Len(features_data) THEN Ok(features, 0)
    ELSE Then(decode_feature(features_data[i], keys, values), LAMBDA props :
             ResolveFeatures(features_data, i + 1, keys, values,
                             Append(features, props.val)))

RECURSIVE LayerLoop(_, _, _, _, _)

\* A variant that resolves a feature where it stands: met while no key or no
\* value has been collected yet, it is given the empty mapping (no tags).
LayerEntryResolveOnOccurrence(data, field_num, body, next, keys, values, features_data) ==
    IF field_num = 3 THEN
        Then(Utf8Decode(body), LAMBDA s :
            LayerLoop(data, next, Append(keys, s.val), values, features_data))
    ELSE IF field_num = 4 THEN
        Then(decode_value(body), LAMBDA v :
            LayerLoop(data, next, keys, Append(values, v.val), features_data))
    ELSE IF keys = <<>> \/ values = <<>> THEN
        LayerLoop(data, next, keys, values, Append(features_data, <<>>))
    ELSE LayerLoop(data, next, keys, values, Append(features_data, body))

\* A key, value or feature field with payload body; the loop goes on at next.
LayerEntry(data, field_num, body, next, keys, values, features_data) ==
    IF field_num = 3 THEN
        Then(Utf8Decode(body), LAMBDA s :
            LayerLoop(data, next, Append(keys, s.val), values, features_data))
    ELSE IF field_num = 4 THEN
        Then(decode_value(body), LAMBDA v :
            LayerLoop(data, next, keys, Append(values, v.val), features_data))
    ELSE LayerLoop(data, next, keys, values, Append(features_data, body))

\* The if/elif chain of decode_layer's loop on a field whose payload starts at pos.
LayerField(data, field_num, wire_type, pos, keys, values, features_data) ==
    IF field_num \in {2, 3, 4} /\ wire_type = 2 THEN
        Then(decode_varint(data, pos), LAMBDA ln :
            LayerEntry(data, field_num, Slice(data, ln.pos, ln.pos + ln.val),
                       ln.pos + ln.val, keys, values, features_data))
    ELSE Then(skip_field(data, pos, wire_type), LAMBDA sk :
             LayerLoop(data, sk.pos, keys, values, features_data))

\* The first loop: collects keys, values and the raw feature slices; when
\* the buffer is consumed the features are resolved.
LayerLoop(data, pos, keys, values, features_data) ==
    IF pos >= Len(data)
    THEN ResolveFeatures(features_data, 1, keys, values, <<>>)
    ELSE Then(decode_varint(data, pos), LAMBDA tg :
             LayerField(data, tg.val \div 8, tg.val % 8, tg.pos,
                        keys, values, features_data))

decode_layer(data) == LayerLoop(data, 0, <<>>, <<>>, <<>>)

-----------------------------------------------------------------------------
(* str(value) as extract_feature_ids applies it.                           *)

RECURSIVE Digits(_)
Digits(n) == IF n < 10 THEN <<48 + n>> ELSE Digits(n \div 10) \o <<48 + (n % 10)>>

\* The repr of a float is not computed: it is the marker -1 followed by the
\* float's bytes, a string no str, int or bool has.
Str(value) ==
    CASE value.t = "str" -> value.v
      [] value.t = "int" -> IF value.v[1] < 0 THEN <<45>> \o Digits(-value.v[1])
                            ELSE Digits(value.v[1])
      [] value.t = "bool" -> IF value.v[1] = 1 THEN <<84, 114, 117, 101>>
                             ELSE <<70, 97, 108, 115, 101>>
      [] value.t = "float" -> <<-1>> \o value.v
      [] OTHER -> <<78, 111, 110, 101>>

-----------------------------------------------------------------------------
(* mvt_decoder.py: extract_feature_ids                                     *)

featureId == <<102, 101, 97, 116, 117, 114, 101, 73, 100>>

GzipMagic == <<31, 139>>

\* gzip.decompress.  The deflate coding is not modelled: a gzip stream is the
\* magic, one byte giving the payload length, and the payload; every other
\* buffer starting with the magic makes gzip.decompress raise.
GzipDecompress(tile_data) ==
    IF Len(tile_data) >= 3 /\ Len(tile_data) = tile_data[3] + 3
    THEN Ok(SubSeq(tile_data, 4, Len(tile_data)), 0)
    ELSE Err(DecompressionError)

\* props.get("featureId")
GetFeatureId(props) ==
    IF featureId \in DOMAIN props THEN props[featureId] ELSE NoneValue

\* Mutant of AppendFeatureId: only str values are taken as feature ids.
AppendFeatureIdStrOnly(feature_ids, feature_id) ==
    IF feature_id.t = "str" THEN Append(feature_ids, Str(feature_id)) ELSE feature_ids

\* if feature_id is not None: feature_ids.append(str(feature_id))
AppendFeatureId(feature_ids, feature_id) ==
    IF feature_id # NoneValue THEN Append(feature_ids, Str(feature_id))
    ELSE feature_ids

\* for props in features
RECURSIVE CollectIds(_, _, _)
CollectIds(features, i, feature_ids) ==
    IF i > Len(features) THEN feature_ids
    ELSE CollectIds(features, i + 1,
                    AppendFeatureId(feature_ids, GetFeatureId(features[i])))

RECURSIVE TileLoop(_, _, _)

\* The if/else of extract_feature_ids' loop on a field whose payload starts at pos.
TileField(tile_data, field_num, wire_type, pos, feature_ids) ==
    IF field_num = 3 /\ wire_type = 2 THEN
        Then(decode_varint(tile_data, pos), LAMBDA ln :
            Then(decode_layer(Slice(tile_data, ln.pos, ln.pos + ln.val)),
                 LAMBDA features :
                     TileLoop(tile_data, ln.pos + ln.val,
                              CollectIds(features.val, 1, feature_ids))))
    ELSE Then(skip_field(tile_data, pos, wire_type), LAMBDA sk :
             TileLoop(tile_data, sk.pos, feature_ids))

TileLoop(tile_data, pos, feature_ids) ==
    IF pos >= Len(tile_data) THEN Ok(feature_ids, pos)
    ELSE Then(decode_varint(tile_data, pos), LAMBDA tg :
             TileField(tile_data, tg.val \div 8, tg.val % 8, tg.pos, feature_ids))

\* if tile_data[:2] == b"\x1f\x8b": tile_data = gzip.decompress(tile_data)
Decompressed(tile_data) ==
    IF Slice(tile_data, 0, 2) = GzipMagic THEN GzipDecompress(tile_data)
    ELSE Ok(tile_data, 0)

extract_feature_ids(tile_data) ==
    Then(Decompressed(tile_data), LAMBDA z : TileLoop(z.val, 0, <<>>))

-----------------------------------------------------------------------------
(* const.py                                                                *)

TILE_GRID_ORIGIN_X == 120000
TILE_GRID_ORIGIN_Y == 6500000
\* TILE_GRID_EXTENT_WIDTH = 1258291.2, in tenths of a metre
TILE_GRID_EXTENT_WIDTH_TENTHS == 12582912
DEFAULT_ZOOM == 12
VALID_ROAD_CLASSES == {11, 21, 22, 23, 24, 31, 32, 33, 34}

-----------------------------------------------------------------------------
(* api.py: lat_lon_to_tile, get_neighboring_tiles                          *)

RECURSIVE Pow2(_)
Pow2(n) == IF n = 0 THEN 1 ELSE 2 * Pow2(n - 1)

\* lat_lon_to_tile after the pyproj transform, which is not modelled: the
\* location is given by its projected coordinates (utm_x, utm_y), in whole
\* metres.  Lengths are in tenths of a metre, which makes tile_size a whole
\* number for zoom <= 22; \div rounds toward minus infinity, as math.floor.
lat_lon_to_tile(utm_x, utm_y, zoom) ==
    LET tile_size == TILE_GRID_EXTENT_WIDTH_TENTHS \div Pow2(zoom)
        tile_x == ((utm_x - TILE_GRID_ORIGIN_X) * 10) \div tile_size
        tile_y == ((TILE_GRID_ORIGIN_Y - utm_y) * 10) \div tile_size
    IN  <<tile_x, tile_y>>

RECURSIVE DyLoop(_, _, _, _, _)
RECURSIVE DyLoopTooFar(_, _, _, _, _)

\* Mutant of DyLoop: range(-radius, radius + 2)
DyLoopTooFar(center, dx, dy, radius, acc) ==
    IF dy >= radius + 2 THEN acc
    ELSE DyLoopTooFar(center, dx, dy + 1, radius,
                      Append(acc, <<center[1] + dx, center[2] + dy>>))

\* for dy in range(-radius, radius + 1)
DyLoop(center, dx, dy, radius, acc) ==
    IF dy >= radius + 1 THEN acc
    ELSE DyLoop(center, dx, dy + 1, radius,
                Append(acc, <<center[1] + dx, center[2] + dy>>))

RECURSIVE DxLoop(_, _, _, _)
RECURSIVE DxLoopTooShort(_, _, _, _)

\* Mutant of DxLoop: range(-radius, radius)
DxLoopTooShort(center, dx, radius, acc) ==
    IF dx >= radius THEN acc
    ELSE DxLoopTooShort(center, dx + 1, radius, DyLoop(center, dx, -radius, radius, acc))

\* for dx in range(-radius, radius + 1)
DxLoop(center, dx, radius, acc) ==
    IF dx >= radius + 1 THEN acc
    ELSE DxLoop(center, dx + 1, radius, DyLoop(center, dx, -radius, radius, acc))

get_neighboring_tiles(utm_x, utm_y, zoom, radius) ==
    DxLoop(lat_lon_to_tile(utm_x, utm_y, zoom), -radius, radius, <<>>)

-----------------------------------------------------------------------------
(* api.py: SaltingStatus, get_salting_status                               *)

SALTING_NOW == "salting_now"
LESS_THAN_12H == "less_than_12h"
BETWEEN_12H_48H == "between_12h_48h"
MORE_THAN_48H == "more_than_48h"
UNKNOWN == "unknown"
SaltingStatus == <<SALTING_NOW, LESS_THAN_12H, BETWEEN_12H_48H, MORE_THAN_48H, UNKNOWN>>

SecondsPerHour == 3600

\* datetime.fromtimestamp(t) and datetime.now() (which is fromtimestamp of the
\* current time) give the naive local wall-clock time: t plus the UTC offset
\* the host's time zone has at t.  A time zone tz is its offset before and
\* from a transition instant tz.at; wall-clock times are in seconds.
fromtimestamp(t, tz) == t + (IF t < tz.at THEN tz.before ELSE tz.after)

\* now is the current time (seconds since the epoch), tz the host's time zone.
get_salting_status(salting_time_epoch, salting_now, now, tz) ==
    IF salting_now THEN SALTING_NOW
    ELSE IF salting_time_epoch <= 0 THEN UNKNOWN
    ELSE LET seconds_ago == fromtimestamp(now, tz) - fromtimestamp(salting_time_epoch, tz)
         IN  \* hours_ago = seconds_ago / 3600
             IF seconds_ago < 0 THEN MORE_THAN_48H
             ELSE IF seconds_ago < 12 * SecondsPerHour THEN LESS_THAN_12H
             ELSE IF seconds_ago < 48 * SecondsPerHour THEN BETWEEN_12H_48H
             ELSE MORE_THAN_48H

-----------------------------------------------------------------------------
(* Inputs: well-formed encodings, built from a description of the tile.    *)
(* A layer field is [f, t, x]: a key (x its ASCII code points), a value of *)
(* variant t (x its payload), a feature (x its tags) or another field (x   *)
(* its raw bytes).  A tile item is a layer (its fields) or another         *)
(* top-level field (its raw bytes).                                        *)

RECURSIVE EncVarint(_)
EncVarint(n) == IF n < 128 THEN <<n>> ELSE <<128 + (n % 128)>> \o EncVarint(n \div 128)

EncTag(field_num, wire_type) == EncVarint(field_num * 8 + wire_type)
EncLD(field_num, payload) == EncTag(field_num, 2) \o EncVarint(Len(payload)) \o payload
ZigZag(n) == IF n >= 0 THEN 2 * n ELSE -2 * n - 1

RECURSIVE EncVarints(_)
EncVarints(ns) == IF ns = <<>> THEN <<>> ELSE EncVarint(Head(ns)) \o EncVarints(Tail(ns))

EncValue(t, x) ==
    CASE t = "str" -> EncLD(1, x)
      [] t = "float" -> EncTag(2, 5) \o x
      [] t = "double" -> EncTag(3, 1) \o x
      [] t = "int" -> EncTag(4, 0) \o EncVarint(x[1])
      [] t = "uint" -> EncTag(5, 0) \o EncVarint(x[1])
      [] t = "sint" -> EncTag(6, 0) \o EncVarint(ZigZag(x[1]))
      [] t = "bool" -> EncTag(7, 0) \o EncVarint(x[1])
      [] OTHER -> <<>>

KeyF(s) == [f |-> "key", t |-> "", x |-> s]
ValF(t, x) == [f |-> "value", t |-> t, x |-> x]
FeatF(tags) == [f |-> "feature", t |-> "", x |-> tags]
OtherF(raw) == [f |-> "other", t |-> "", x |-> raw]

EncField(fld) ==
    CASE fld.f = "key" -> EncLD(3, fld.x)
      [] fld.f = "value" -> EncLD(4, EncValue(fld.t, fld.x))
      [] fld.f = "feature" -> EncLD(2, EncLD(2, EncVarints(fld.x)))
      [] OTHER -> fld.x

RECURSIVE EncLayer(_)
EncLayer(fields) ==
    IF fields = <<>> THEN <<>> ELSE EncField(Head(fields)) \o EncLayer(Tail(fields))

LayerI(fields) == [k |-> "layer", fields |-> fields, raw |-> <<>>]
OtherI(raw) == [k |-> "other", fields |-> <<>>, raw |-> raw]

EncItem(item) == IF item.k = "layer" THEN EncLD(3, EncLayer(item.fields)) ELSE item.raw

RECURSIVE EncTile(_)
EncTile(items) ==
    IF items = <<>> THEN <<>> ELSE EncItem(Head(items)) \o EncTile(Tail(items))

Gzip(payload) == GzipMagic \o <<Len(payload)>> \o payload

Range(seq) == {seq[i] : i \in DOMAIN seq}

-----------------------------------------------------------------------------
(* api.py: VejdirektoratetAPI; coordinator.py: _async_update_data          *)

\* Optional values: <<>> is None, <<v>> is the value v.
None == <<>>
Some(v) == <<v>>

EmptyFeed == [fid \in {} |-> <<0, 0, FALSE, 0, 0>>]

\* fetch_winter_status, lines 110-124: one RoadSegment per entry of the feed.
ParseSegments(raw_data, now, tz) ==
    [fid \in DOMAIN raw_data |->
        LET values == raw_data[fid]
            road_class == values[1]
            salting_epoch == values[2]
            salting_now == values[3]
            condition == values[4]
            service_level == values[5]
        IN  [feature_id |-> fid,
             road_class |-> road_class,
             salting_time |-> IF salting_epoch > 0
                              THEN Some(fromtimestamp(salting_epoch, tz)) ELSE None,
             salting_now |-> salting_now,
             condition |-> condition,
             service_level |-> service_level,
             status |-> get_salting_status(salting_epoch, salting_now, now, tz)]]

MissingVersion == "ValueError: Missing 'version' in tile metadata"
HttpError == "aiohttp.ClientError"

\* Mutant of fetch_tile_version: data.get("version") in place of the check.
fetch_tile_version_get(response) ==
    IF response.kind = "http_error" THEN Err(HttpError)
    ELSE Ok(IF response.has_version THEN Some(response.version) ELSE None, 0)

\* fetch_tile_version on a metadata response: the version stored and returned,
\* or the exception raised.
fetch_tile_version(response) ==
    IF response.kind = "http_error" THEN Err(HttpError)
    ELSE IF ~response.has_version THEN Err(MissingVersion)
    ELSE Ok(Some(response.version), 0)

\* Mutant of ExceptException: the clause catches only the HTTP client's errors.
ExceptClientErrorOnly(r) ==
    IF r.ok THEN Ok(r.val, 0) ELSE IF r.err = HttpError THEN Ok(<<>>, 0) ELSE r

\* except Exception as err: log it and return []
ExceptException(r) == IF r.ok THEN Ok(r.val, 0) ELSE Ok(<<>>, 0)

\* fetch_tile_features, lines 147-156, on a tile response: what the try block
\* returns, or what the except clause returns in its place.
TileFeatures(response) ==
    IF response.kind = "http_error" THEN ExceptException(Err(HttpError))
    ELSE ExceptException(extract_feature_ids(response.body))

\* Mutant of FilterRoads: the road class is not looked at.
FilterRoadsAnyClass(segments, nearby) ==
    [fid \in {f \in DOMAIN segments : f \in nearby} |-> segments[fid]]

\* get_roads_near_location, lines 174-189
FilterRoads(segments, nearby) ==
    IF nearby # {}
    THEN LET kept == {fid \in DOMAIN segments :
                         /\ fid \in nearby
                         /\ segments[fid].road_class \in VALID_ROAD_CLASSES}
         IN  [fid \in kept |-> segments[fid]]
    ELSE [fid \in {} |-> 0]

\* _async_update_data, lines 46-48: for segment in roads.values(): count += 1
RECURSIVE CountStatuses(_, _, _)
CountStatuses(roads, todo, status_counts) ==
    IF todo = {} THEN status_counts
    ELSE LET fid == CHOOSE f \in todo : TRUE IN
         CountStatuses(roads, todo \ {fid},
                       [status_counts EXCEPT ![roads[fid].status] = @ + 1])

\* A variant of the if/elif chain that looks for the worst case first.
OverallStatusWorstFirst(status_counts) ==
    IF status_counts[MORE_THAN_48H] > 0 THEN MORE_THAN_48H
    ELSE IF status_counts[BETWEEN_12H_48H] > 0 THEN BETWEEN_12H_48H
    ELSE IF status_counts[LESS_THAN_12H] > 0 THEN LESS_THAN_12H
    ELSE IF status_counts[SALTING_NOW] > 0 THEN SALTING_NOW
    ELSE UNKNOWN

\* _async_update_data, lines 51-60
OverallStatus(status_counts) ==
    IF status_counts[SALTING_NOW] > 0 THEN SALTING_NOW
    ELSE IF status_counts[LESS_THAN_12H] > 0 THEN LESS_THAN_12H
    ELSE IF status_counts[BETWEEN_12H_48H] > 0 THEN BETWEEN_12H_48H
    ELSE IF status_counts[MORE_THAN_48H] > 0 THEN MORE_THAN_48H
    ELSE UNKNOWN

NoCounts == [st \in Range(SaltingStatus) |-> 0]

\* What _async_update_data returns for the roads found.
UpdateData(roads) ==
    LET status_counts == CountStatuses(roads, DOMAIN roads, NoCounts) IN
    [kind |-> "data",
     roads |-> roads,
     status_counts |-> status_counts,
     overall_status |-> OverallStatus(status_counts),
     total_roads |-> Cardinality(DOMAIN roads),
     err |-> ""]

\* The except clause of _async_update_data.
UpdateFailed(err) ==
    [kind |-> "UpdateFailed", roads |-> [fid \in {} |-> 0], status_counts |-> NoCounts,
     overall_status |-> UNKNOWN, total_roads |-> 0, err |-> err]

Pending ==
    [kind |-> "pending", roads |-> [fid \in {} |-> 0], status_counts |-> NoCounts,
     overall_status |-> UNKNOWN, total_roads |-> 0, err |-> ""]

StatusRequest == [kind |-> "status", url |-> <<>>]
MetadataRequest == [kind |-> "metadata", url |-> <<>>]
\* TILE_URL_PATTERN.format(version=..., z=..., x=..., y=...)
TileRequest(version, zoom, tile) == [kind |-> "tile", url |-> version \o <<zoom>> \o tile]

-----------------------------------------------------------------------------
(* The environment of the API client: what the three feeds may answer.     *)

R1 == <<82, 49>>
R2 == <<82, 50>>
R3 == <<82, 51>>
R9 == <<82, 57>>
Seven == <<55>>

\* A layer with keys ["featureId"], the given values, and one feature per value.
IdLayer(vals) ==
    <<KeyF(featureId)>> \o vals \o [i \in 1..Len(vals) |-> FeatF(<<0, i - 1>>)]

TileR1 == EncTile(<<LayerI(IdLayer(<<ValF("str", R1)>>))>>)
TileR2Seven ==
    EncTile(<<OtherI(EncTag(15, 0) \o <<1>>),
              LayerI(IdLayer(<<ValF("str", R2), ValF("int", <<7>>)>>))>>)
\* a first layer that decodes, then a layer holding a field of wire type 3
TileLaterLayerFails ==
    EncTile(<<LayerI(IdLayer(<<ValF("str", R3)>>)), LayerI(<<OtherF(EncTag(1, 3))>>)>>)
\* a layer that decodes, then a tag with nothing after it
TileTruncated == TileR1 \o EncTag(3, 2)

TileResponse(kind, body, ids) == [kind |-> kind, body |-> body, ids |-> ids]

TileResponses ==
    { TileResponse("ok", TileR1, {R1}),
      TileResponse("ok", TileR2Seven, {R2, Seven}),
      TileResponse("ok", Gzip(TileR1), {R1}),
      TileResponse("ok", <<>>, {}),
      TileResponse("http_error", <<>>, {}),
      TileResponse("gzip_error", GzipMagic \o <<9, 1>>, {}),
      TileResponse("truncated", TileTruncated, {}),
      TileResponse("later_layer", TileLaterLayerFails, {}) }

MetadataResponse(kind, has_version, version) ==
    [kind |-> kind, has_version |-> has_version, version |-> version]

\* the version is an int, as fetch_tile_version's annotation says
MetadataResponses ==
    { MetadataResponse("http_error", FALSE, 0),
      MetadataResponse("no_version", FALSE, 0),
      MetadataResponse("ok", TRUE, 1),
      MetadataResponse("ok", TRUE, 2) }

NowSet == {1000000}
NoDst == [at |-> 0, before |-> 3600, after |-> 3600]

\* rows of the status feed:
\* [road_class, salting_epoch, salting_now, condition, service_level]
FeedRows ==
    { <<11, 1000000 - 3600, FALSE, 1, 2>>,
      <<12, 1000000 - 72000, FALSE, 2, 1>>,
      <<34, 0, TRUE, 3, 3>> }

StatusFeeds ==
    {EmptyFeed}
    \cup {[fid \in {R1, R9} |-> IF fid = R9 THEN <<21, 0, FALSE, 0, 0>> ELSE row] :
             row \in FeedRows}
    \cup {[fid \in {R1, Seven} |-> IF fid = R1 THEN <<31, 1000000 - 200000, FALSE, 1, 1>>
                                   ELSE row] : row \in FeedRows}

StatusResponses ==
    {[kind |-> "http_error", raw |-> EmptyFeed]}
    \cup {[kind |-> "ok", raw |-> feed] : feed \in StatusFeeds}

\* hass.config.latitude / longitude, as projected coordinates
Homes == {<<725000, 6175000>>}

MaxCycles == 2

-----------------------------------------------------------------------------
(* One refresh cycle: _async_update_data calling get_roads_near_location,  *)
(* one action per await.                                                   *)

ApiInit ==
    /\ pc = "idle"
    /\ tile_version = None
    /\ all_segments = EmptyFeed
    /\ tiles = <<>>
    /\ idx = 1
    /\ nearby_feature_ids = {}
    /\ requests = <<>>
    /\ inflight = {}
    /\ outcome = Pending
    /\ cycle = 0
    /\ last_resp = ""
    /\ last_ret = <<>>
    /\ status_resp = ""
    /\ meta_resp = ""
    /\ good_ids = {}
    /\ returned_ids = {}

FnIdle ==
    /\ fn_pc = "off"
    /\ fn_in = <<>>
    /\ fn_out = <<>>
    /\ stack = <<>>

Init ==
    /\ ApiInit
    /\ home \in Homes
    /\ FnIdle

\* The coordinator starts _async_update_data, which calls
\* get_roads_near_location, which awaits fetch_winter_status.
StartUpdate ==
    /\ pc \in {"idle", "done"}
    /\ cycle < MaxCycles
    /\ cycle' = cycle + 1
    /\ pc' = "status"
    /\ requests' = <<StatusRequest>>
    /\ inflight' = inflight \cup {StatusRequest}
    /\ outcome' = Pending
    /\ all_segments' = EmptyFeed
    /\ tiles' = <<>>
    /\ idx' = 1
    /\ nearby_feature_ids' = {}
    /\ last_resp' = ""
    /\ last_ret' = <<>>
    /\ status_resp' = ""
    /\ meta_resp' = ""
    /\ good_ids' = {}
    /\ returned_ids' = {}
    /\ UNCHANGED <<tile_version, home, fnVars>>

\* fetch_winter_status gets its response; on success get_neighboring_tiles
\* and the start of the for loop follow.
WinterStatusResponse ==
    /\ pc = "status"
    /\ \E response \in StatusResponses, now \in NowSet :
        /\ inflight' = inflight \ {StatusRequest}
        /\ status_resp' = response.kind
        /\ IF response.kind = "ok"
           THEN /\ all_segments' = ParseSegments(response.raw, now, NoDst)
                /\ tiles' = get_neighboring_tiles(home[1], home[2], DEFAULT_ZOOM, 1)
                /\ pc' = "loop"
                /\ UNCHANGED outcome
           ELSE /\ outcome' = UpdateFailed(HttpError)
                /\ pc' = "done"
                /\ UNCHANGED <<all_segments, tiles>>
    /\ UNCHANGED <<tile_version, idx, nearby_feature_ids, requests, cycle, last_resp,
                   last_ret, meta_resp, good_ids, returned_ids, home, fnVars>>

\* A variant of fetch_tile_features without the check of _tile_version: the
\* metadata is requested before every tile.
FetchTileFeaturesNoCache ==
    /\ pc = "loop"
    /\ idx <= Len(tiles)
    /\ requests' = Append(requests, MetadataRequest)
    /\ inflight' = inflight \cup {MetadataRequest}
    /\ pc' = "meta"
    /\ UNCHANGED <<tile_version, all_segments, tiles, idx, nearby_feature_ids, outcome,
                   cycle, last_resp, last_ret, status_resp, meta_resp, good_ids,
                   returned_ids, home, fnVars>>

\* The for loop calls fetch_tile_features for the next tile: it requests the
\* metadata when the version is not known, the tile otherwise.
FetchTileFeatures ==
    /\ pc = "loop"
    /\ idx <= Len(tiles)
    /\ IF tile_version = None
       THEN /\ requests' = Append(requests, MetadataRequest)
            /\ inflight' = inflight \cup {MetadataRequest}
            /\ pc' = "meta"
       ELSE LET request == TileRequest(tile_version, DEFAULT_ZOOM, tiles[idx]) IN
            /\ requests' = Append(requests, request)
            /\ inflight' = inflight \cup {request}
            /\ pc' = "tile"
    /\ UNCHANGED <<tile_version, all_segments, tiles, idx, nearby_feature_ids, outcome,
                   cycle, last_resp, last_ret, status_resp, meta_resp, good_ids,
                   returned_ids, home, fnVars>>

\* fetch_tile_version has returned or raised r: the exception leaves
\* fetch_tile_features and get_roads_near_location, and the coordinator
\* turns it into UpdateFailed; otherwise the tile is requested.
AfterTileVersion(r) ==
    IF r.ok
    THEN /\ tile_version' = r.val
         /\ requests' = Append(requests, TileRequest(r.val, DEFAULT_ZOOM, tiles[idx]))
         /\ inflight' = (inflight \ {MetadataRequest})
                            \cup {TileRequest(r.val, DEFAULT_ZOOM, tiles[idx])}
         /\ pc' = "tile"
         /\ UNCHANGED outcome
    ELSE /\ outcome' = UpdateFailed(r.err)
         /\ inflight' = inflight \ {MetadataRequest}
         /\ pc' = "done"
         /\ UNCHANGED <<tile_version, requests>>

\* The metadata request gets its response.
TileVersionResponse ==
    /\ pc = "meta"
    /\ \E response \in MetadataResponses :
        /\ meta_resp' = response.kind
        /\ AfterTileVersion(fetch_tile_version(response))
    /\ UNCHANGED <<all_segments, tiles, idx, nearby_feature_ids, cycle, last_resp,
                   last_ret, status_resp, good_ids, returned_ids, home, fnVars>>

\* fetch_tile_features has returned or raised r: the loop body adds the ids
\* to nearby_feature_ids and goes to the next tile.
AfterTileFeatures(r) ==
    IF r.ok
    THEN /\ last_ret' = r.val
         /\ returned_ids' = returned_ids \cup Range(r.val)
         /\ nearby_feature_ids' = nearby_feature_ids \cup Range(r.val)
         /\ idx' = idx + 1
         /\ pc' = "loop"
         /\ UNCHANGED outcome
    ELSE /\ outcome' = UpdateFailed(r.err)
         /\ pc' = "done"
         /\ UNCHANGED <<last_ret, returned_ids, nearby_feature_ids, idx>>

\* The tile request gets its response.
TileFeaturesResponse ==
    /\ pc = "tile"
    /\ \E response \in TileResponses :
        /\ inflight' = inflight \ {TileRequest(tile_version, DEFAULT_ZOOM, tiles[idx])}
        /\ last_resp' = response.kind
        /\ good_ids' = good_ids \cup response.ids
        /\ AfterTileFeatures(TileFeatures(response))
    /\ UNCHANGED <<tile_version, all_segments, tiles, requests, cycle, status_resp,
                   meta_resp, home, fnVars>>

\* After the last tile get_roads_near_location filters the segments and
\* _async_update_data returns its summary.
ReturnRoads ==
    /\ pc = "loop"
    /\ idx > Len(tiles)
    /\ outcome' = UpdateData(FilterRoads(all_segments, nearby_feature_ids))
    /\ pc' = "done"
    /\ UNCHANGED <<tile_version, all_segments, tiles, idx, nearby_feature_ids, requests,
                   inflight, cycle, last_resp, last_ret, status_resp, meta_resp,
                   good_ids, returned_ids, home, fnVars>>

Next ==
    \/ StartUpdate
    \/ WinterStatusResponse
    \/ FetchTileFeatures
    \/ TileVersionResponse
    \/ TileFeaturesResponse
    \/ ReturnRoads

Spec == Init /\ [][Next]_vars

-----------------------------------------------------------------------------
(* Claims about the refresh cycle, checked under Spec.                     *)

TileFailureKinds == {"http_error", "gzip_error", "truncated", "later_layer"}

\* C1: with the tile version known, a tile whose request or decoding fails
\* (HTTP error, gzip error, decode error, also in a later layer of the tile)
\* makes fetch_tile_features return [], never fails the cycle, and the ids of
\* the well-formed tiles stay in the union and in the filtered result.
C1_TileFailureIsolated ==
    /\ last_resp \in TileFailureKinds => last_ret = <<>>
    /\ last_resp # "" => outcome.kind # "UpdateFailed"
    /\ good_ids \subseteq nearby_feature_ids
    /\ (pc = "done" /\ status_resp = "ok" /\ meta_resp \in {"", "ok"}) =>
          /\ outcome.kind = "data"
          /\ \A fid \in good_ids \cap DOMAIN all_segments :
                all_segments[fid].road_class \in VALID_ROAD_CLASSES
                    => fid \in DOMAIN outcome.roads

C1_Witness ==
    /\ pc = "done"
    /\ outcome.kind = "data"
    /\ last_resp = "later_layer"
    /\ Seven \in good_ids
    /\ Seven \in DOMAIN outcome.roads

\* C2: when the version is not known and the metadata response has no
\* 'version', the cycle ends there: no tile request is issued in the cycle
\* and _async_update_data ends in UpdateFailed with the missing-version error.
C2_MissingVersionAborts ==
    meta_resp = "no_version" =>
        /\ pc = "done"
        /\ outcome.kind = "UpdateFailed"
        /\ outcome.err = MissingVersion
        /\ requests = <<StatusRequest, MetadataRequest>>
        /\ inflight = {}

C2_Witness ==
    /\ meta_resp = "no_version"
    /\ cycle = 2
    /\ outcome.kind = "UpdateFailed"

\* C4: the roads returned are exactly the status-feed entries whose id is in
\* the union of the lists returned for the tiles and whose road class is one
\* of the nine valid classes, each with its segment unchanged.
C4_ResultIsFilteredFeed ==
    (pc = "done" /\ outcome.kind = "data") =>
        /\ DOMAIN outcome.roads =
              {fid \in DOMAIN all_segments :
                  /\ fid \in returned_ids
                  /\ all_segments[fid].road_class \in {11, 21, 22, 23, 24, 31, 32, 33, 34}}
        /\ \A fid \in DOMAIN outcome.roads : outcome.roads[fid] = all_segments[fid]

C4_Witness ==
    /\ pc = "done"
    /\ outcome.kind = "data"
    /\ DOMAIN outcome.roads = {R1}
    /\ Seven \in returned_ids \cap DOMAIN all_segments
    /\ all_segments[Seven].road_class = 12

TileRequestsOf(reqs) == SelectSeq(reqs, LAMBDA q : q.kind = "tile")

\* C8: a cycle issues one status request, first; when it fails no other
\* request is issued and the cycle fails; otherwise at most 9 tile requests
\* are issued, the k-th for the k-th neighbourhood tile, and no request is
\* issued while another awaits its response.
C8_RequestOrder ==
    /\ pc # "idle" =>
          /\ Len(requests) >= 1
          /\ requests[1] = StatusRequest
          /\ \A i \in 2..Len(requests) : requests[i].kind # "status"
    /\ pc = "status" => requests = <<StatusRequest>>
    /\ status_resp = "http_error" =>
          /\ requests = <<StatusRequest>>
          /\ pc = "done"
          /\ outcome.kind = "UpdateFailed"
    /\ Len(TileRequestsOf(requests)) <= 9
    /\ \A k \in 1..Len(TileRequestsOf(requests)) :
          /\ k <= Len(tiles)
          /\ TileRequestsOf(requests)[k] = TileRequest(tile_version, DEFAULT_ZOOM, tiles[k])
    /\ \A j, k \in 1..Len(tiles) : j # k => tiles[j] # tiles[k]
    /\ Cardinality(inflight) <= 1

C8_Witness ==
    /\ pc = "done"
    /\ outcome.kind = "data"
    /\ Len(requests) = 11
    /\ Len(TileRequestsOf(requests)) = 9

-----------------------------------------------------------------------------
(* Pure functions, each under a specification of its own: Init draws the   *)
(* input, one action applies the function.                                 *)

FnInit(inputs) ==
    /\ ApiInit
    /\ home \in Homes
    /\ fn_pc = "call"
    /\ fn_in \in inputs
    /\ fn_out = <<>>
    /\ stack = <<>>

FnCall(result) ==
    /\ fn_pc = "call"
    /\ fn_out' = result
    /\ fn_pc' = "done"
    /\ UNCHANGED <<apiVars, fn_in, stack>>

(* get_salting_status *)

FallBack == [at |-> 1000000 - 300, before |-> 7200, after |-> 3600]
SpringForward == [at |-> 1000000 - 300, before |-> 3600, after |-> 7200]
TzSet == {NoDst, FallBack, SpringForward}

Ages == {0, 1, 600, 43199, 43200, 43201, 172799, 172800, 172801}

SaltInputs ==
    [salting_epoch : {-5, 0} \cup {now - a : now \in NowSet, a \in Ages}
                        \cup {now + 600 : now \in NowSet},
     salting_now : BOOLEAN,
     now : NowSet,
     tz : TzSet]

SaltInit == FnInit(SaltInputs)

CallGetSaltingStatus ==
    FnCall(<<get_salting_status(fn_in.salting_epoch, fn_in.salting_now,
                                fn_in.now, fn_in.tz)>>)

SaltNext == CallGetSaltingStatus

SaltSpec == SaltInit /\ [][SaltNext]_vars

\* C5: the status is SaltingNow when salting_now; otherwise Unknown for an
\* epoch <= 0; otherwise, with age = now - epoch, MoreThan48h for age < 0,
\* LessThan12h for 0 <= age < 12h, Between12And48h for 12h <= age < 48h,
\* MoreThan48h for age >= 48h.
C5_StatusByAge ==
    fn_pc = "done" =>
        LET age == fn_in.now - fn_in.salting_epoch IN
        fn_out[1] =
            IF fn_in.salting_now THEN SALTING_NOW
            ELSE IF fn_in.salting_epoch <= 0 THEN UNKNOWN
            ELSE IF age < 0 THEN MORE_THAN_48H
            ELSE IF age < 12 * 3600 THEN LESS_THAN_12H
            ELSE IF age < 48 * 3600 THEN BETWEEN_12H_48H
            ELSE MORE_THAN_48H

(* get_neighboring_tiles *)

MaxRadius == 2

TileInputs ==
    [utm_x : {119000, 120000, 120307, 725000},
     utm_y : {6175000, 6500000, 6500100},
     zoom : {0, 11, 12},
     radius : 0..MaxRadius]

TileInit == FnInit(TileInputs)

CallGetNeighboringTiles ==
    FnCall(get_neighboring_tiles(fn_in.utm_x, fn_in.utm_y, fn_in.zoom, fn_in.radius))

TileNext == CallGetNeighboringTiles

TileSpec == TileInit /\ [][TileNext]_vars

\* C7: get_neighboring_tiles returns the (2r+1)^2 pairwise distinct tiles
\* center + (dx, dy), dx and dy in -r..r, around center = lat_lon_to_tile,
\* dx-major; 9 tiles for radius 1.
C7_Neighbourhood ==
    fn_pc = "done" =>
        LET center == lat_lon_to_tile(fn_in.utm_x, fn_in.utm_y, fn_in.zoom)
            r == fn_in.radius
            side == 2 * r + 1
        IN  /\ Len(fn_out) = side * side
            /\ r = 1 => Len(fn_out) = 9
            /\ \A j, k \in 1..Len(fn_out) : j # k => fn_out[j] # fn_out[k]
            /\ Range(fn_out) =
                  {<<center[1] + dx, center[2] + dy>> : dx \in -r..r, dy \in -r..r}
            /\ \A k \in 1..Len(fn_out) :
                  fn_out[k] = <<center[1] - r + ((k - 1) \div side),
                                center[2] - r + ((k - 1) % side)>>

C7_Witness ==
    /\ fn_pc = "done"
    /\ fn_in.radius = 1
    /\ Len(fn_out) = 9
    /\ fn_out[1][1] < 0
    /\ fn_out[5] = lat_lon_to_tile(fn_in.utm_x, fn_in.utm_y, fn_in.zoom)

-----------------------------------------------------------------------------
(* The mapping a feature's tags stand for, stated on the tags themselves:  *)
(* pair j (1-based) is (tags[2j-1], tags[2j]); a pair counts when both ids *)
(* are within the arrays; a key has the value of the last pair naming it.  *)

PairKey(tags, keys, j) == keys[tags[2 * j - 1] + 1]

InRangePairs(tags, keys, values) ==
    {j \in 1..(Len(tags) \div 2) :
        tags[2 * j - 1] < Len(keys) /\ tags[2 * j] < Len(values)}

LastPairOf(tags, keys, values, k) ==
    CHOOSE j \in InRangePairs(tags, keys, values) :
        /\ PairKey(tags, keys, j) = k
        /\ \A j2 \in InRangePairs(tags, keys, values) :
              PairKey(tags, keys, j2) = k => j2 <= j

ExpectedProps(tags, keys, values) ==
    [k \in {PairKey(tags, keys, j) : j \in InRangePairs(tags, keys, values)} |->
        values[tags[2 * LastPairOf(tags, keys, values, k)] + 1]]

(* decode_feature *)

MaxTags == 5
MaxId == 2

KeyA == <<97>>
KeyB == <<98>>

TagLists == UNION {[1..n -> 0..MaxId] : n \in 0..MaxTags}

FeatInputs ==
    [tags : TagLists,
     keys : {<<>>, <<KeyA, KeyB>>, <<KeyA, KeyA>>},
     values : {<<IntV(10)>>, <<IntV(10), StrV(R1)>>, <<NoneValue, BoolV(TRUE)>>}]

FeatInit == FnInit(FeatInputs)

\* a feature message: an id field, the packed tags, a geometry-type field
EncFeatureMsg(tags) ==
    EncTag(1, 0) \o <<5>> \o EncLD(2, EncVarints(tags)) \o EncTag(3, 0) \o <<1>>

CallDecodeFeature ==
    FnCall(decode_feature(EncFeatureMsg(fn_in.tags), fn_in.keys, fn_in.values))

FeatNext == CallDecodeFeature

FeatSpec == FeatInit /\ [][FeatNext]_vars

\* C10: decode_feature never raises on a packed tags array; it reads the tags
\* in (key_id, value_id) pairs, drops the pairs with an id at or past the end
\* of its array and a trailing unpaired element, leaves the other pairs'
\* entries as they are, and gives a key the value of its last in-range pair.
C10_TagPairs ==
    fn_pc = "done" =>
        /\ fn_out.ok
        /\ fn_out.val = ExpectedProps(fn_in.tags, fn_in.keys, fn_in.values)

C10_Witness ==
    /\ fn_pc = "done"
    /\ fn_in.tags = <<0, 0, 2, 0, 1>>
    /\ fn_in.keys = <<KeyA, KeyB>>
    /\ fn_out.ok
    /\ DOMAIN fn_out.val = {KeyA}

C10_WitnessLastWins ==
    /\ fn_pc = "done"
    /\ fn_in.tags = <<0, 0, 1, 1>>
    /\ fn_in.keys = <<KeyA, KeyA>>
    /\ fn_in.values = <<IntV(10), StrV(R1)>>
    /\ fn_out.ok
    /\ fn_out.val[KeyA] = StrV(R1)

(* decode_layer *)

MaxFields == 4

LayerAlphabet ==
    { KeyF(KeyA), KeyF(KeyB), ValF("int", <<10>>), ValF("str", R1),
      FeatF(<<0, 0>>), FeatF(<<1, 1, 0, 1>>), OtherF(EncTag(15, 0) \o <<2>>) }

LayerInputs == UNION {[1..n -> LayerAlphabet] : n \in 0..MaxFields}

LayerInit == FnInit(LayerInputs)

CallDecodeLayer == FnCall(decode_layer(EncLayer(fn_in)))

LayerNext == CallDecodeLayer

LayerSpec == LayerInit /\ [][LayerNext]_vars

\* The Python value a value field of variant t with payload x decodes to.
PyValue(t, x) ==
    CASE t = "str" -> StrV(x)
      [] t \in {"float", "double"} -> FloatV(x)
      [] t \in {"int", "uint", "sint"} -> IntV(x[1])
      [] t = "bool" -> BoolV(x[1] # 0)
      [] OTHER -> NoneValue

FieldsOf(fields, kind) == SelectSeq(fields, LAMBDA fld : fld.f = kind)
KeysOf(fields) == [i \in 1..Len(FieldsOf(fields, "key")) |-> FieldsOf(fields, "key")[i].x]
ValuesOf(fields) ==
    [i \in 1..Len(FieldsOf(fields, "value")) |->
        PyValue(FieldsOf(fields, "value")[i].t, FieldsOf(fields, "value")[i].x)]
TagsOf(fields) ==
    [i \in 1..Len(FieldsOf(fields, "feature")) |-> FieldsOf(fields, "feature")[i].x]

\* the fields regrouped: keys, then values, then features, each in their order
KeysValuesFeatures(fields) ==
    FieldsOf(fields, "key") \o FieldsOf(fields, "value") \o FieldsOf(fields, "feature")

\* C9: decode_layer returns one mapping per feature, in the features' order
\* of occurrence, each resolved against all the keys and all the values of
\* the layer wherever the feature stands among them; the result is that of
\* the layer with its keys first, then its values, then its features.
C9_TwoPass ==
    fn_pc = "done" =>
        /\ fn_out.ok
        /\ Len(fn_out.val) = Len(TagsOf(fn_in))
        /\ \A i \in 1..Len(fn_out.val) :
              fn_out.val[i] = ExpectedProps(TagsOf(fn_in)[i], KeysOf(fn_in), ValuesOf(fn_in))
        /\ fn_out = decode_layer(EncLayer(KeysValuesFeatures(fn_in)))

C9_Witness ==
    /\ fn_pc = "done"
    /\ fn_in = <<FeatF(<<1, 1, 0, 1>>), KeyF(KeyA), ValF("int", <<10>>), ValF("str", R1)>>
    /\ fn_out.ok
    /\ fn_out.val = <<[k \in {KeyA} |-> StrV(R1)]>>

(* extract_feature_ids on well-formed tiles *)

MaxFeatures == 2


F32One == <<0, 0, 128, 63>>
F64One == <<0, 0, 0, 0, 0, 0, 240, 63>>

ValueVariants ==
    { ValF("str", R1), ValF("float", F32One), ValF("double", F64One),
      ValF("int", <<7>>), ValF("uint", <<300>>), ValF("sint", <<-3>>),
      ValF("bool", <<1>>), ValF("none", <<>>) }

DecKeyLists == { <<KeyF(featureId)>>, <<KeyF(KeyA), KeyF(featureId)>>, <<KeyF(KeyA)>> }

DecTagLists == { <<0, 0>>, <<0, 1>>, <<1, 0>>, <<1, 1>> }

DecFeatureLists ==
    UNION {[1..n -> {FeatF(tags) : tags \in DecTagLists}] : n \in 0..MaxFeatures}

DecLayers ==
    { ks \o <<v, ValF("str", R2)>> \o fs :
        ks \in DecKeyLists, v \in ValueVariants, fs \in DecFeatureLists }

\* a second layer, after the varied one
LayerR9 == LayerI(<<KeyF(featureId), ValF("str", R9), FeatF(<<0, 0>>)>>)

\* top-level fields that are no layer: field 1 varint, field 15 fixed32
TopOther == OtherI(EncTag(1, 0) \o <<2>> \o EncTag(15, 5) \o <<1, 2, 3, 4>>)

DecInputs ==
    UNION { { <<LayerI(l)>>, <<TopOther, LayerI(l)>>, <<LayerI(l), TopOther, LayerR9>> } :
              l \in DecLayers }

DecInit == FnInit(DecInputs)

CallExtractFeatureIds == FnCall(extract_feature_ids(EncTile(fn_in)))

DecNext == CallExtractFeatureIds

DecSpec == DecInit /\ [][DecNext]_vars

HasFeatureId(tags, keys, values) ==
    \E j \in InRangePairs(tags, keys, values) : PairKey(tags, keys, j) = featureId

\* The strings one feature contributes; absentToo says whether an Absent
\* value is stringified like the others.
IdOfFeature(tags, keys, values, absentToo) ==
    IF ~HasFeatureId(tags, keys, values) THEN <<>>
    ELSE IF ExpectedProps(tags, keys, values)[featureId] = NoneValue /\ ~absentToo THEN <<>>
    ELSE <<Str(ExpectedProps(tags, keys, values)[featureId])>>

RECURSIVE IdsOfFeatures(_, _, _, _, _)
IdsOfFeatures(tagsSeq, i, keys, values, absentToo) ==
    IF i > Len(tagsSeq) THEN <<>>
    ELSE IdOfFeature(tagsSeq[i], keys, values, absentToo)
            \o IdsOfFeatures(tagsSeq, i + 1, keys, values, absentToo)

RECURSIVE IdsOfTile(_, _)
IdsOfTile(items, absentToo) ==
    IF items = <<>> THEN <<>>
    ELSE IF Head(items).k # "layer" THEN IdsOfTile(Tail(items), absentToo)
    ELSE IdsOfFeatures(TagsOf(Head(items).fields), 1, KeysOf(Head(items).fields),
                       ValuesOf(Head(items).fields), absentToo)
            \o IdsOfTile(Tail(items), absentToo)

\* C6 as stated: one string per feature whose mapping has the key
\* "featureId", the stringified value whatever its variant, Absent included.
C6_AnyVariantStringified ==
    fn_pc = "done" => fn_out.ok /\ fn_out.val = IdsOfTile(fn_in, TRUE)

\* C6 amended: for every well-formed tile, extract_feature_ids returns, in
\* layer order and then feature order, one string per feature whose mapping
\* has the key "featureId" with a value other than Absent: the stringified
\* value (string, float, integer or boolean); features without the key or
\* with an Absent value contribute nothing, duplicates are kept, and
\* top-level fields other than field 3 are skipped.
C6_NonAbsentStringified ==
    fn_pc = "done" => fn_out.ok /\ fn_out.val = IdsOfTile(fn_in, FALSE)

\* a boolean feature id twice in the first layer, other fields, a second layer
C6_Witness ==
    /\ fn_pc = "done"
    /\ Len(fn_in) = 3
    /\ fn_out.ok
    /\ fn_out.val = <<<<84, 114, 117, 101>>, <<84, 114, 117, 101>>, R9>>

\* an Absent feature id contributes nothing
C6_WitnessAbsent ==
    /\ fn_pc = "done"
    /\ fn_in = <<LayerI(<<KeyF(featureId), ValF("none", <<>>), ValF("str", R2),
                         FeatF(<<0, 0>>), FeatF(<<0, 1>>)>>)>>
    /\ fn_out.ok
    /\ fn_out.val = <<R2>>

(* extract_feature_ids on truncated tiles *)

TileFixed32 == <<LayerI(<<KeyF(featureId), ValF("float", F32One), FeatF(<<0, 0>>)>>),
                 OtherI(EncTag(15, 5) \o <<1, 2, 3, 4>>)>>

TileFixed64 == <<OtherI(EncTag(14, 1) \o <<1, 2, 3, 4, 5, 6, 7, 8>>),
                 LayerI(<<ValF("double", F64One), KeyF(KeyA)>>)>>

TileStrings == <<LayerI(<<KeyF(KeyA), OtherF(EncLD(1, <<114, 111, 97, 100>>)),
                          ValF("str", R1), FeatF(<<0, 0>>)>>),
                 OtherI(EncLD(2, <<9, 9>>))>>

TileTwoLayers == <<LayerI(<<KeyF(featureId), ValF("str", R1), FeatF(<<0, 0>>)>>), LayerR9>>

WellFormedTiles == {TileFixed32, TileFixed64, TileStrings, TileTwoLayers}

\* the lengths at which a prefix of the tile is a complete message
CompletePrefixLengths(items) ==
    {Len(EncTile(SubSeq(items, 1, k))) : k \in 0..Len(items)}

TruncInputs ==
    UNION { { [items |-> items, cut |-> c, gzip |-> z] :
                 c \in 0..(Len(EncTile(items)) - 1), z \in BOOLEAN } :
            items \in WellFormedTiles }

TruncInit == FnInit(TruncInputs)

\* the bytes handed to extract_feature_ids: the first cut bytes of the tile,
\* gzip-framed or not
TruncatedTile(in) ==
    IF in.gzip THEN Gzip(Slice(EncTile(in.items), 0, in.cut))
    ELSE Slice(EncTile(in.items), 0, in.cut)

CallExtractOnPrefix == FnCall(extract_feature_ids(TruncatedTile(fn_in)))

TruncNext == CallExtractOnPrefix

TruncSpec == TruncInit /\ [][TruncNext]_vars

\* C3 as stated: on a proper prefix of a well-formed tile that is not itself
\* a complete message, extract_feature_ids fails with the truncated-data
\* error: it returns no list and fails with no other kind of error.
C3_TruncationReported ==
    (fn_pc = "done" /\ fn_in.cut \notin CompletePrefixLengths(fn_in.items)) =>
        ~fn_out.ok /\ fn_out.err = TruncatedData

-----------------------------------------------------------------------------
(* mvt_decoder.py run one loop iteration at a time.  stack holds a frame   *)
(* per active call, the running one last.  A frame records the function,   *)
(* its locals, where in its body it stands (at), and prev, the read        *)
(* position at which the loop's current iteration began (-1 before the     *)
(* first).  A step yields what the run becomes: still running with a new   *)
(* stack, or ended by a return or by an exception reaching the caller.     *)

Running(st) == [pc |-> "run", stack |-> st, out |-> <<>>]
Raised(e) == [pc |-> "done", stack |-> <<>>, out |-> Err(e)]
Finished(v, p) == [pc |-> "done", stack |-> <<>>, out |-> Ok(v, p)]

Top(st) == st[Len(st)]
Pop(st) == SubSeq(st, 1, Len(st) - 1)
ReplaceTop(st, f) == [st EXCEPT ![Len(st)] = f]

VarintFrame(data, pos) ==
    [fn |-> "decode_varint", at |-> "while", data |-> data, pos |-> pos,
     prev |-> -1, result |-> 0, mult |-> 1]

TileFrame(tile_data) ==
    [fn |-> "extract_feature_ids", at |-> "while", data |-> tile_data, pos |-> 0,
     prev |-> -1, wire_type |-> 0, feature_ids |-> <<>>]

LayerFrame(data) ==
    [fn |-> "decode_layer", at |-> "while", data |-> data, pos |-> 0, prev |-> -1,
     field_num |-> 0, wire_type |-> 0, length |-> 0, keys |-> <<>>, values |-> <<>>,
     features_data |-> <<>>, features |-> <<>>, i |-> 1]

ValueFrame(data) ==
    [fn |-> "decode_value", at |-> "while", data |-> data, pos |-> 0, prev |-> -1,
     field_num |-> 0, wire_type |-> 0]

FeatureFrame(data, keys, values) ==
    [fn |-> "decode_feature", at |-> "while", data |-> data, pos |-> 0, prev |-> -1,
     wire_type |-> 0, tags |-> <<>>, end |-> 0, packed_prev |-> -1,
     keys |-> keys, values |-> values]

\* frame f, the top of st, calls decode_varint(data, pos) and waits at label
CallVarint(st, f, label) ==
    Running(Append(ReplaceTop(st, [f EXCEPT !.at = label]), VarintFrame(f.data, f.pos)))

\* pos = skip_field(data, pos, wire_type) in frame f, up to its call of
\* decode_varint (wire types 0 and 2) or to its end
SkipField(st, f, pos, wire_type) ==
    CASE wire_type \in {0, 2} ->
            CallVarint(st, [f EXCEPT !.pos = pos, !.wire_type = wire_type], "skip")
      [] wire_type = 1 -> Running(ReplaceTop(st, [f EXCEPT !.pos = pos + 8, !.at = "while"]))
      [] wire_type = 5 -> Running(ReplaceTop(st, [f EXCEPT !.pos = pos + 4, !.at = "while"]))
      [] OTHER -> Raised(UnknownWireType)

\* A variant of skip_field, wire type 2: pos = length in place of pos += length.
SkipFieldResumeAssignsLength(st, f, val, pos) ==
    Running(ReplaceTop(st, [f EXCEPT !.pos = IF f.wire_type = 0 THEN pos ELSE val,
                                     !.at = "while"]))

\* skip_field after its decode_varint returned (val, pos)
SkipFieldResume(st, f, val, pos) ==
    Running(ReplaceTop(st, [f EXCEPT !.pos = IF f.wire_type = 0 THEN pos ELSE pos + val,
                                     !.at = "while"]))

\* a called function returns v to frame f, the top of st
Return(st, f, v) ==
    IF f.fn = "extract_feature_ids" THEN
        Running(ReplaceTop(st, [f EXCEPT !.feature_ids = CollectIds(v, 1, f.feature_ids),
                                         !.at = "while"]))
    ELSE IF f.at = "value" THEN
        Running(ReplaceTop(st, [f EXCEPT !.values = Append(f.values, v),
                                         !.pos = f.pos + f.length, !.at = "while"]))
    ELSE
        Running(ReplaceTop(st, [f EXCEPT !.features = Append(f.features, v),
                                         !.i = f.i + 1, !.at = "for"]))

\* the running function ends with r: its value goes to the caller atop st,
\* its exception through every caller
ReturnOrRaise(st, r) == IF r.ok THEN Return(st, Top(st), r.val) ELSE Raised(r.err)

\* extract_feature_ids after decode_varint returned (val, pos)
TileResume(st, f, val, pos) ==
    IF f.at = "tag" THEN
        IF val \div 8 = 3 /\ val % 8 = 2
        THEN CallVarint(st, [f EXCEPT !.pos = pos], "length")
        ELSE SkipField(st, f, pos, val % 8)
    ELSE Running(Append(ReplaceTop(st, [f EXCEPT !.pos = pos + val, !.at = "layer"]),
                        LayerFrame(Slice(f.data, pos, pos + val))))

\* keys.append(data[pos : pos + length].decode("utf-8")); pos += length
LayerKey(st, f, s, next) ==
    IF s.ok THEN Running(ReplaceTop(st, [f EXCEPT !.keys = Append(f.keys, s.val),
                                                  !.pos = next, !.at = "while"]))
    ELSE Raised(s.err)

\* decode_layer after decode_varint returned (val, pos)
LayerResume(st, f, val, pos) ==
    IF f.at = "tag" THEN
        IF val \div 8 \in {2, 3, 4} /\ val % 8 = 2
        THEN CallVarint(st, [f EXCEPT !.pos = pos, !.field_num = val \div 8], "length")
        ELSE SkipField(st, f, pos, val % 8)
    ELSE IF f.field_num = 3 THEN
        LayerKey(st, f, Utf8Decode(Slice(f.data, pos, pos + val)), pos + val)
    ELSE IF f.field_num = 4 THEN
        Running(Append(ReplaceTop(st, [f EXCEPT !.pos = pos, !.length = val, !.at = "value"]),
                       ValueFrame(Slice(f.data, pos, pos + val))))
    ELSE Running(ReplaceTop(st, [f EXCEPT
                    !.features_data = Append(f.features_data, Slice(f.data, pos, pos + val)),
                    !.pos = pos + val, !.at = "while"]))

\* return data[pos : pos + length].decode("utf-8")
ValueStr(st, s) == IF s.ok THEN Return(st, Top(st), StrV(s.val)) ELSE Raised(s.err)

\* decode_value after decode_varint returned (val, pos); st holds f on top
ValueResume(st, f, val, pos) ==
    IF f.at = "tag" THEN
        IF val \div 8 = 1 /\ val % 8 = 2 THEN
            CallVarint(st, [f EXCEPT !.pos = pos], "length")
        ELSE IF val \div 8 = 2 /\ val % 8 = 5 THEN
            ReturnOrRaise(Pop(st), StructUnpack(4, Slice(f.data, pos, pos + 4)))
        ELSE IF val \div 8 = 3 /\ val % 8 = 1 THEN
            ReturnOrRaise(Pop(st), StructUnpack(8, Slice(f.data, pos, pos + 8)))
        ELSE IF val \div 8 \in {4, 5, 6, 7} /\ val % 8 = 0 THEN
            CallVarint(st, [f EXCEPT !.pos = pos, !.field_num = val \div 8], "val")
        ELSE SkipField(st, f, pos, val % 8)
    ELSE IF f.at = "length" THEN
        ValueStr(Pop(st), Utf8Decode(Slice(f.data, pos, pos + val)))
    ELSE IF f.field_num \in {4, 5} THEN Return(Pop(st), Top(Pop(st)), IntV(val))
    ELSE IF f.field_num = 6 THEN Return(Pop(st), Top(Pop(st)), IntV(decode_sint(val)))
    ELSE Return(Pop(st), Top(Pop(st)), BoolV(val # 0))

\* decode_feature after decode_varint returned (val, pos)
FeatureResume(st, f, val, pos) ==
    IF f.at = "tag" THEN
        IF val \div 8 = 2 /\ val % 8 = 2
        THEN CallVarint(st, [f EXCEPT !.pos = pos], "length")
        ELSE SkipField(st, f, pos, val % 8)
    ELSE IF f.at = "length" THEN
        Running(ReplaceTop(st, [f EXCEPT !.pos = pos, !.end = pos + val,
                                         !.packed_prev = -1, !.at = "packed_while"]))
    ELSE Running(ReplaceTop(st, [f EXCEPT !.tags = Append(f.tags, val), !.pos = pos,
                                          !.at = "packed_while"]))

\* decode_varint returns (val, pos) to frame f, the top of st
VarintReturn(st, f, val, pos) ==
    IF f.at = "skip" THEN SkipFieldResume(st, f, val, pos)
    ELSE CASE f.fn = "extract_feature_ids" -> TileResume(st, f, val, pos)
           [] f.fn = "decode_layer" -> LayerResume(st, f, val, pos)
           [] f.fn = "decode_value" -> ValueResume(st, f, val, pos)
           [] OTHER -> FeatureResume(st, f, val, pos)

\* One iteration of decode_varint's while True loop in frame f, the top of st.
VarintIterate(st, f) ==
    IF f.pos >= Len(f.data) THEN Raised(TruncatedData)
    ELSE IF f.data[f.pos + 1] < 128 THEN
        VarintReturn(Pop(st), Top(Pop(st)),
                     f.result + f.data[f.pos + 1] * f.mult, f.pos + 1)
    ELSE Running(ReplaceTop(st, [f EXCEPT !.prev = f.pos, !.pos = f.pos + 1,
                                          !.result = f.result + (f.data[f.pos + 1] - 128) * f.mult,
                                          !.mult = f.mult * 128]))

\* while pos < len(tile_data): the loop test of extract_feature_ids
TileWhile(st, f) ==
    IF f.pos < Len(f.data) THEN CallVarint(st, [f EXCEPT !.prev = f.pos], "tag")
    ELSE Finished(f.feature_ids, f.pos)

\* decode_layer: the test of its while loop, or of its for loop
LayerWhile(st, f) ==
    IF f.at = "while" THEN
        IF f.pos < Len(f.data) THEN CallVarint(st, [f EXCEPT !.prev = f.pos], "tag")
        ELSE Running(ReplaceTop(st, [f EXCEPT !.at = "for"]))
    ELSE IF f.i <= Len(f.features_data) THEN
        Running(Append(ReplaceTop(st, [f EXCEPT !.at = "feature"]),
                       FeatureFrame(f.features_data[f.i], f.keys, f.values)))
    ELSE Return(Pop(st), Top(Pop(st)), f.features)

\* while pos < len(data): the loop test of decode_value
ValueWhile(st, f) ==
    IF f.pos < Len(f.data) THEN CallVarint(st, [f EXCEPT !.prev = f.pos], "tag")
    ELSE Return(Pop(st), Top(Pop(st)), NoneValue)

\* decode_feature: the test of its outer loop, or of the loop over the tags
FeatureWhile(st, f) ==
    IF f.at = "while" THEN
        IF f.pos < Len(f.data) THEN CallVarint(st, [f EXCEPT !.prev = f.pos], "tag")
        ELSE Return(Pop(st), Top(Pop(st)),
                    TagsToProperties(f.tags, 0, f.keys, f.values, EmptyDict))
    ELSE IF f.pos < f.end THEN
        CallVarint(st, [f EXCEPT !.packed_prev = f.pos], "packed_val")
    ELSE Running(ReplaceTop(st, [f EXCEPT !.at = "while"]))

\* the run becomes m
Become(m) ==
    /\ fn_pc' = m.pc
    /\ stack' = m.stack
    /\ fn_out' = m.out
    /\ UNCHANGED <<apiVars, fn_in>>

\* extract_feature_ids is entered: the gzip check, then the loop at pos = 0
EnterExtract(z) == IF z.ok THEN Running(<<TileFrame(z.val)>>) ELSE Raised(z.err)

StartExtract ==
    /\ fn_pc = "call"
    /\ Become(EnterExtract(Decompressed(fn_in)))

TopIs(fn, ats) ==
    /\ fn_pc = "run"
    /\ Top(stack).fn = fn
    /\ Top(stack).at \in ats

VarintStep == TopIs("decode_varint", {"while"}) /\ Become(VarintIterate(stack, Top(stack)))
TileStep == TopIs("extract_feature_ids", {"while"}) /\ Become(TileWhile(stack, Top(stack)))
LayerStep == TopIs("decode_layer", {"while", "for"}) /\ Become(LayerWhile(stack, Top(stack)))
ValueStep == TopIs("decode_value", {"while"}) /\ Become(ValueWhile(stack, Top(stack)))
FeatureStep ==
    TopIs("decode_feature", {"while", "packed_while"}) /\ Become(FeatureWhile(stack, Top(stack)))

(* extract_feature_ids, stepwise, on arbitrary buffers *)

MaxBuf == 4
MaxCont == 2

\* tags of wire types 0, 1 and 2, of fields 2, 3 and 4 (length-delimited),
\* and a continuation byte; the small ones double as lengths
ByteAlphabet == {0, 1, 2, 18, 26, 34, 128}

\* every buffer of at most MaxBuf such bytes, at most MaxCont of them
\* continuation bytes
ShortBuffers ==
    {b \in UNION {[1..n -> ByteAlphabet] : n \in 0..MaxBuf} :
        Cardinality({i \in DOMAIN b : b[i] = 128}) <= MaxCont}

TileAllValues ==
    <<LayerI(<<KeyF(featureId), ValF("sint", <<-3>>), ValF("bool", <<1>>),
               ValF("uint", <<300>>), ValF("none", <<>>),
               FeatF(<<0, 0, 0, 1>>), FeatF(<<0, 2>>), FeatF(<<0, 3>>)>>)>>

Prefixes(buf) == {Slice(buf, 0, c) : c \in 0..Len(buf)}

LoopInputs ==
    ShortBuffers
      \cup {EncTile(items) : items \in WellFormedTiles \cup {TileAllValues}}
      \cup Prefixes(EncTile(TileFixed32))
      \cup {Gzip(EncTile(TileTwoLayers)), GzipMagic, <<7>>}

LoopInit == FnInit(LoopInputs)

LoopNext ==
    \/ StartExtract
    \/ VarintStep
    \/ TileStep
    \/ LayerStep
    \/ ValueStep
    \/ FeatureStep

\* the interpreter runs the function to its end: a step that can be taken is taken
LoopSpec == LoopInit /\ [][LoopNext]_vars /\ WF_vars(LoopNext)

\* the stepwise run ends as the function does
StepwiseAgrees == fn_pc = "done" => stack = <<>> /\ fn_out = extract_feature_ids(fn_in)

\* at the test of every active decode loop the read position is past the
\* one at which the loop's previous iteration began
LoopAdvances ==
    \A k \in 1..Len(stack) :
        /\ stack[k].at = "while" => stack[k].prev < stack[k].pos
        /\ stack[k].at = "packed_while" => stack[k].packed_prev < stack[k].pos

\* C11: decoding always terminates: on every buffer extract_feature_ids, with
\* decode_layer, decode_feature, decode_value and decode_varint within it,
\* returns or raises after finitely many steps, and every iteration of every
\* decode loop strictly increases the read position.
C11_DecodingTerminates == []LoopAdvances /\ <>(fn_pc = "done")

\* a run through every decode loop that returned
C11_Witness ==
    /\ fn_pc = "done"
    /\ fn_in = EncTile(TileAllValues)
    /\ fn_out.ok
    /\ fn_out.val = <<<<84, 114, 117, 101>>, <<51, 48, 48>>>>

-----------------------------------------------------------------------------
(* The tile version over the refresh cycles *)

\* the step sends the metadata request
MetadataRequested ==
    /\ requests' # requests
    /\ requests'[Len(requests')] = MetadataRequest

\* the step is a call of fetch_tile_features reaching its first request
TileFetchBegins == pc = "loop" /\ pc' \in {"meta", "tile"}

\* the step is a metadata fetch that raises
MetadataFetchFails == pc = "meta" /\ outcome'.kind = "UpdateFailed"

VersionCachedStep ==
    /\ MetadataRequested => tile_version = None
    /\ tile_version # None => tile_version' = tile_version
    /\ MetadataFetchFails => tile_version' = None
    /\ (TileFetchBegins /\ tile_version = None) => MetadataRequested

\* C12: the tile version is cached for the life of the API client: over the
\* refresh cycles the metadata is requested only while _tile_version is
\* unset; once a metadata fetch has set it, it is not requested again and
\* _tile_version does not change, whatever the tile requests answer; a
\* failed metadata fetch leaves it unset, and the next tile fetch requests
\* the metadata again.
C12_VersionCached == [][VersionCachedStep]_vars

\* a second cycle that ran its nine tile requests on the cached version,
\* without a metadata request, the last tile request failing
C12_Witness ==
    /\ cycle = 2
    /\ pc = "done"
    /\ outcome.kind = "data"
    /\ tile_version # None
    /\ meta_resp = ""
    /\ Len(requests) = 10
    /\ \A i \in 1..Len(requests) : requests[i] # MetadataRequest
    /\ last_resp = "http_error"

\* a second cycle that requests the metadata again after the first cycle's
\* metadata fetch failed
C12_WitnessRetry ==
    /\ cycle = 2
    /\ pc = "meta"
    /\ tile_version = None
    /\ requests = <<StatusRequest, MetadataRequest>>

\* C13: every data set a successful _async_update_data returns is
\* self-consistent: status_counts has an entry for each of the five
\* SaltingStatus values, the counts sum to total_roads, which is the number
\* of roads returned, and overall_status is the first of salting_now,
\* less_than_12h, between_12h_48h, more_than_48h with a non-zero count, or
\* unknown when none has.
C13_SummaryConsistent ==
    (pc = "done" /\ outcome.kind = "data") =>
        /\ DOMAIN outcome.status_counts =
              {SALTING_NOW, LESS_THAN_12H, BETWEEN_12H_48H, MORE_THAN_48H, UNKNOWN}
        /\ Cardinality(DOMAIN outcome.status_counts) = 5
        /\ \A st \in DOMAIN outcome.status_counts :
              outcome.status_counts[st] =
                  Cardinality({fid \in DOMAIN outcome.roads : outcome.roads[fid].status = st})
        /\ outcome.total_roads = Cardinality(DOMAIN outcome.roads)
        /\ outcome.status_counts[SALTING_NOW] + outcome.status_counts[LESS_THAN_12H]
              + outcome.status_counts[BETWEEN_12H_48H] + outcome.status_counts[MORE_THAN_48H]
              + outcome.status_counts[UNKNOWN] = outcome.total_roads
        /\ \A k \in 1..4 :
              (/\ outcome.status_counts[SaltingStatus[k]] > 0
               /\ \A j \in 1..(k - 1) : outcome.status_counts[SaltingStatus[j]] = 0)
                  => outcome.overall_status = SaltingStatus[k]
        /\ (\A k \in 1..4 : outcome.status_counts[SaltingStatus[k]] = 0)
              => outcome.overall_status = UNKNOWN

\* roads of several statuses, the best of them less_than_12h
C13_Witness ==
    /\ pc = "done"
    /\ outcome.kind = "data"
    /\ outcome.total_roads >= 2
    /\ outcome.status_counts[SALTING_NOW] = 0
    /\ outcome.status_counts[LESS_THAN_12H] > 0
    /\ outcome.status_counts[MORE_THAN_48H] > 0
    /\ outcome.overall_status = LESS_THAN_12H

\* every tile failed: no roads, every count zero, unknown
C13_WitnessNoRoads ==
    /\ pc = "done"
    /\ outcome.kind = "data"
    /\ good_ids = {}
    /\ outcome.total_roads = 0
    /\ outcome.overall_status = UNKNOWN

====
